---- MODULE Spec2Model ----
(***************************************************************************)
(* Entry/exit presence reconciliation of the IntelliSight back end.        *)
(*                                                                         *)
(* The model covers the request handlers that write the three presence     *)
(* tables (ActivePresence, AttendanceLog, TimeTable):                      *)
(*   - logRecognizedPerson and markExit of zone1.controller.js,            *)
(*   - TimetableService.recordEntry and recordExit,                        *)
(* and the detection loop of the dashboard page Zone1.jsx, which turns the  *)
(* camera sightings into calls of logRecognizedPerson and logUnknownPerson.*)
(* Every handler is an async function; each `await prisma...` is a point   *)
(* where another request may run, so a handler is modelled as one action   *)
(* per awaited database call, with its locals kept in a request slot.      *)
(* Server times are whole seconds, dashboard times whole minutes.          *)
(* The unknown-face handlers (UnknownFaces table) and the live recognition *)
(* controller, which keeps one spawned process per zone in an in-memory    *)
(* map, are modelled the same way.                                         *)
(***************************************************************************)
EXTENDS Integers, FiniteSets, Sequences, TLC

(* ------------------------------ bounds -------------------------------- *)
MaxReq == 2            \* request slots: requests processed concurrently
MaxPersonId == 1       \* enrolled students 1..MaxPersonId (and one teacher, 1)
MaxRows == 2           \* rows ever inserted into one table
MaxTicks == 1          \* clock advances
MaxCameraId == 2       \* camera ids handed out by addCamera
ClockStep == 31        \* the dashboard clock advances in steps of 31 minutes,
MaxElapses == 2        \* twice
MaxSpawns == 3         \* recognition processes ever spawned

(* ----------------------------- constants ------------------------------ *)
TickSeconds == 45      \* the clock advances in steps of 45 s
NullId == 0            \* a null foreign key / "no row" (SERIAL ids start at 1)
NullTime == -1         \* a null timestamp column
NoTimestamp == -1      \* request body without `timestamp`
NullDuration == -1000  \* `duration = null` in a report row
RecognizedCooldown == 5     \* setTimeout(..., 5 * 60 * 1000), in minutes
UnknownCooldown == 60       \* Date.now() - (60 * 60 * 1000), in minutes
MatchThreshold == 6         \* matchFace(descriptor, 0.6), in tenths
DistanceUnit == 2           \* neighbouring descriptors are 0.2 apart
Infinity == 1000            \* let bestDistance = Infinity
NoDescriptor == -1          \* a detection without descriptor / no face
ZONE1 == 1             \* the zone hard-wired into zone1.controller.js
NoPid == 0             \* activeProcesses has no entry for the zone

Reqs == 1..MaxReq
Students == 1..MaxPersonId
Teachers == {1}
Zones == {1, 2}
Times == {k * TickSeconds : k \in 0..MaxTicks}

\* values a request body may carry
PersonIdInputs == 0..(MaxPersonId + 1)            \* 0: missing; the last: not enrolled
PersonTypeInputs == {"", "STUDENT", "Student", "TEACHER"}
CameraTypeInputs == {"Entry", "Exit", "undefined"}
ServicePersonIds == 1..(MaxPersonId + 1)          \* the last one is not enrolled
ServiceZoneIds == {NullId} \cup Zones \cup {3}     \* 0: no zoneId; 3: no such zone
TimestampInputs == {NoTimestamp, 70}
CameraTypes == {"Entry", "Exit"}
\* the faces a frame may show, as points on a line: 1, 2 and 3 are near the
\* enrolled faces (at 1 and 3); 6, 7 and 9 are strangers, 7 near both others
Descriptors == {1, 2, 3, 6, 7, 9}
Strangers == {6, 7, 9}

VARIABLES
  activePresence,   \* table ActivePresence: set of rows
  attendanceLog,    \* table AttendanceLog: set of rows
  timeTable,        \* table TimeTable: set of rows
  serial,           \* next SERIAL value of each table
  unknownFaces,     \* table UnknownFaces: set of rows
  now,              \* the server clock, in seconds
  slot,             \* the requests in flight: locals and position of each
  cameras,                \* Zone1.jsx: the cameras state, a set of [id, type]
  processingRef,          \* Zone1.jsx: processingRef.current
  cycle,                  \* the detection cycles (interval callbacks) in flight
  recognizedPersonsRef,   \* Zone1.jsx: recognizedPersonsRef.current, a set of keys
  timeouts,               \* the pending setTimeout callbacks: [key, due]
  unknownDescriptorsRef,  \* Zone1.jsx: unknownDescriptorsRef.current
  clock,                  \* the browser clock, in minutes
  lastRecognized,         \* history: minute of the last logRecognizedPerson call per key
  lastUnknown,            \* history: minute of the last logUnknownPerson call per descriptor
  activeProcesses,        \* live recognition: the Map zone id -> process
  children,               \* the spawned recognition processes not yet closed
  spawned                 \* the number of processes spawned so far

tables == <<activePresence, attendanceLog, timeTable, serial, unknownFaces>>
dashboard == <<cameras, processingRef, cycle, recognizedPersonsRef, timeouts,
               unknownDescriptorsRef, clock, lastRecognized, lastUnknown>>
live == <<activeProcesses, children, spawned>>
vars == <<activePresence, attendanceLog, timeTable, serial, unknownFaces, now,
          slot, cameras,
          processingRef, cycle, recognizedPersonsRef, timeouts,
          unknownDescriptorsRef, clock, lastRecognized, lastUnknown,
          activeProcesses, children, spawned>>

(* ------------------------------- rows --------------------------------- *)
\* the "which ID field is set" pattern: { Teacher_ID } or { Student_ID }
\* IdFields filling the student column whatever the type
IdFields_AlwaysStudent(normalizedType, personId) ==
  [Student_ID |-> personId, Teacher_ID |-> NullId]

IdFields(normalizedType, personId) ==
  IF normalizedType = "Teacher"
    THEN [Student_ID |-> NullId, Teacher_ID |-> personId]
    ELSE [Student_ID |-> personId, Teacher_ID |-> NullId]

PresenceRow(id, type, ids, zone, entryTime) ==
  [Presence_ID |-> id, PersonType |-> type, Student_ID |-> ids.Student_ID,
   Teacher_ID |-> ids.Teacher_ID, Zone_id |-> zone, EntryTime |-> entryTime]

NullPresence == PresenceRow(NullId, "", IdFields("", NullId), NullId, NullTime)

\* Presence_ID is not a column of AttendanceLog: it is a history field that
\* remembers which presence session the record closes.
LogRow(id, type, studentId, teacherId, zone, entryTime, exitTime, duration, presenceId) ==
  [Log_ID |-> id, PersonType |-> type, Student_ID |-> studentId,
   Teacher_ID |-> teacherId, Zone_id |-> zone, EntryTime |-> entryTime,
   ExitTime |-> exitTime, Duration |-> duration, Presence_ID |-> presenceId]

TimeTableRow(id, type, ids, zone, entryTime, exitTime) ==
  [TimeTable_ID |-> id, PersonType |-> type, Student_ID |-> ids.Student_ID,
   Teacher_ID |-> ids.Teacher_ID, Zone_id |-> zone, EntryTime |-> entryTime,
   ExitTime |-> exitTime]

(* --------------------------- request slots ---------------------------- *)
IdleSlot ==
  [op |-> "none", pc |-> "idle",
   personType |-> "", personId |-> NullId, zoneId |-> NullId,
   cameraType |-> "", timestamp |-> NoTimestamp, presenceId |-> NullId,
   existingEntry |-> NullPresence, openEntry |-> NullId, time |-> NullTime,
   status |-> 0, message |-> "", data |-> NullPresence, logs |-> {}]

\* the tables a handler may insert into (at most one row each)
Inserts(op) ==
  CASE op = "logRecognizedPerson" -> {"ActivePresence", "TimeTable", "AttendanceLog"}
    [] op = "markExit" -> {"AttendanceLog"}
    [] op = "recordEntry" -> {"TimeTable"}
    [] op = "recordExit" -> {"TimeTable"}
    [] op = "logUnknownPerson" -> {"UnknownFaces"}
    [] OTHER -> {}

\* a request is admitted only while every table it may insert into has room
\* for its row and for the rows of the requests already in flight
Room(op) ==
  \A t \in Inserts(op) :
    serial[t] + Cardinality({r \in Reqs : slot[r].pc # "idle" /\ t \in Inserts(slot[r].op)})
      <= MaxRows

Db ==
  [activePresence |-> activePresence, attendanceLog |-> attendanceLog,
   timeTable |-> timeTable, serial |-> serial, unknownFaces |-> unknownFaces]

\* a step's outcome: the request's new locals and the tables after it
Apply(r, out) ==
  /\ slot' = [slot EXCEPT ![r] = out.s]
  /\ activePresence' = out.db.activePresence
  /\ attendanceLog' = out.db.attendanceLog
  /\ timeTable' = out.db.timeTable
  /\ serial' = out.db.serial
  /\ unknownFaces' = out.db.unknownFaces

\* Insert that keeps one AttendanceLog record per person (an upsert)
Insert_Upsert(db, table, row) ==
  [db EXCEPT !.serial[table] = @ + 1,
             !.activePresence = IF table = "ActivePresence" THEN @ \cup {row} ELSE @,
             !.attendanceLog =
               IF table = "AttendanceLog"
                 THEN {l \in @ : \/ l.PersonType # row.PersonType
                                 \/ l.Student_ID # row.Student_ID
                                 \/ l.Teacher_ID # row.Teacher_ID} \cup {row}
                 ELSE @,
             !.timeTable = IF table = "TimeTable" THEN @ \cup {row} ELSE @,
             !.unknownFaces = IF table = "UnknownFaces" THEN @ \cup {row} ELSE @]

\* prisma.<table>.create({ data: row })
Insert(db, table, row) ==
  [db EXCEPT !.serial[table] = @ + 1,
             !.activePresence = IF table = "ActivePresence" THEN @ \cup {row} ELSE @,
             !.attendanceLog = IF table = "AttendanceLog" THEN @ \cup {row} ELSE @,
             !.timeTable = IF table = "TimeTable" THEN @ \cup {row} ELSE @,
             !.unknownFaces = IF table = "UnknownFaces" THEN @ \cup {row} ELSE @]

\* res.status(status).json({ message, data })
Respond(s, status, message, data) ==
  [s EXCEPT !.pc = "done", !.status = status, !.message = message, !.data = data]

(* ----------------------- Zone1.jsx: state ------------------------------ *)
\* the descriptors loadFaceDatabase extracted from the enrolled faces:
\* students first, then teachers
faceDescriptors ==
  <<[id |-> 1, type |-> "STUDENT", descriptor |-> 1],
    [id |-> 1, type |-> "TEACHER", descriptor |-> 3]>>

\* `${match.type}-${match.id}-${cameraType}`
PersonKey(match, cameraType) == <<match.type, match.id, cameraType>>

PersonKeys ==
  {PersonKey(faceDescriptors[i], t) : i \in DOMAIN faceDescriptors, t \in CameraTypes}

\* matchFace's `null`
NoMatch ==
  [id |-> NullId, type |-> "", descriptor |-> NoDescriptor,
   confidence |-> 0, distance |-> Infinity]

\* a detection cycle (one run of the interval callback) and what it saw
IdleCycle ==
  [pc |-> "idle", cameraType |-> "", descriptor |-> NoDescriptor, match |-> NoMatch]

DashboardInit ==
  /\ cameras = {[id |-> 1, type |-> "Entry"]}
  /\ processingRef = FALSE
  /\ cycle = [c \in Reqs |-> IdleCycle]
  /\ recognizedPersonsRef = {}
  /\ timeouts = {}
  /\ unknownDescriptorsRef = {}
  /\ clock = 0
  /\ lastRecognized = [k \in PersonKeys |-> NullTime]
  /\ lastUnknown = [d \in Strangers |-> NullTime]

Init ==
  /\ activePresence = {}
  /\ attendanceLog = {}
  /\ timeTable = {}
  /\ serial = [ActivePresence |-> 1, AttendanceLog |-> 1, TimeTable |-> 1,
               UnknownFaces |-> 1]
  /\ unknownFaces = {}
  /\ now = 0
  /\ slot = [r \in Reqs |-> IdleSlot]
  /\ DashboardInit
  /\ activeProcesses = [z \in Zones |-> NoPid]
  /\ children = {}
  /\ spawned = 0

(* ------------------- zone1.controller.js: helpers --------------------- *)
normalizedType(personType) ==
  IF personType = "STUDENT" \/ personType = "Student" THEN "Student" ELSE "Teacher"

\* prisma.activePresence.findFirst({ where: { Zone_id: 1, PersonType, <id> } })
\* there is no orderBy: with several matching rows any of them may come back
FindPresence(type, personId) ==
  LET ids == IdFields(type, personId)
      hits == {e \in activePresence :
                 /\ e.Zone_id = ZONE1
                 /\ e.PersonType = type
                 /\ IF type = "Teacher" THEN e.Teacher_ID = ids.Teacher_ID
                                        ELSE e.Student_ID = ids.Student_ID}
  IN IF hits = {} THEN {NullPresence} ELSE hits

\* LrpBranch without the early return for an Entry camera
LrpBranch_EntryNotAbsorbed(existingEntry, cameraType) ==
  IF cameraType = "Entry" THEN "entry"
  ELSE IF existingEntry # NullPresence THEN "already"
  ELSE "ack"

\* LrpBranch with any camera opening a session for an absent person
LrpBranch_AnyCameraOpens(existingEntry, cameraType) ==
  IF existingEntry # NullPresence THEN "already"
  ELSE IF cameraType \in {"Entry", "Exit"} THEN "entry"
  ELSE "ack"

\* the branch taken after the lookup
LrpBranch(existingEntry, cameraType) ==
  IF existingEntry # NullPresence THEN "already"
  ELSE IF cameraType = "Entry" THEN "entry"
  ELSE IF cameraType = "Exit" /\ existingEntry # NullPresence THEN "exit"
  ELSE "ack"

\* Math.round(durationMs / 1000 / 60), for a gap of whole seconds
RoundMinutes(seconds) == (seconds + 30) \div 60

\* Math.floor((exitTime - entryTime) / 60000), for a gap of whole seconds
FloorMinutes(seconds) == seconds \div 60

(* -------------------- logRecognizedPerson: actions -------------------- *)
\* request received, body validated, ActivePresence looked up
LrpArrive(r, personId, personType, cameraType) ==
  /\ slot[r].pc = "idle"
  /\ Room("logRecognizedPerson")
  /\ LET s == [IdleSlot EXCEPT !.op = "logRecognizedPerson",
                               !.personId = personId,
                               !.personType = normalizedType(personType),
                               !.cameraType = cameraType]
     IN IF personId = 0 \/ personType = ""
          THEN slot' = [slot EXCEPT ![r] =
                 Respond([s EXCEPT !.personType = personType], 400,
                         "Person ID and Person Type are required", NullPresence)]
          ELSE \E existingEntry \in FindPresence(s.personType, personId) :
                 LET b == LrpBranch(existingEntry, cameraType)
                     t == [s EXCEPT !.existingEntry = existingEntry]
                 IN slot' = [slot EXCEPT ![r] =
                      CASE b = "already" ->
                             Respond(t, 200, "Person already in zone", existingEntry)
                        [] b = "entry" -> [t EXCEPT !.pc = "createPresence"]
                        [] b = "exit" -> [t EXCEPT !.pc = "exitCreateLog"]
                        [] OTHER ->
                             Respond(t, 200, "detection acknowledged", NullPresence)]

\* a request sent by any client of POST /api/zones/1/recognize
LogRecognizedPerson(r, personId, personType, cameraType) ==
  /\ LrpArrive(r, personId, personType, cameraType)
  /\ UNCHANGED <<tables, now, dashboard, live>>

\* LatestOpen ordered by EntryTime ascending: the oldest open row
LatestOpen_Oldest(rows) ==
  {x \in rows : x.ExitTime = NullTime /\ \A y \in rows :
                  y.ExitTime = NullTime => y.EntryTime >= x.EntryTime}

\* prisma.timeTable.findFirst({ where: {..., ExitTime: null}, orderBy: { EntryTime: 'desc' } })
\* the open rows with the latest EntryTime (ties: any of them may come back)
LatestOpen(rows) ==
  {x \in rows : x.ExitTime = NullTime /\ \A y \in rows :
                  y.ExitTime = NullTime => y.EntryTime <= x.EntryTime}

\* the foreign keys of ActivePresence: the person must be enrolled
Enrolled(type, personId) ==
  IF type = "Teacher" THEN personId \in Teachers ELSE personId \in Students

\* the code after the lookup, one awaited prisma call per step
LrpStep(s, db, t) ==
  LET ids == IdFields(s.personType, s.personId) IN
  CASE s.pc = "createPresence" ->
         LET entryTime == t
             entry == PresenceRow(db.serial.ActivePresence, s.personType, ids,
                                  ZONE1, entryTime)
         IN IF Enrolled(s.personType, s.personId)
              THEN {[s |-> [s EXCEPT !.pc = "createTimeTable", !.time = entryTime,
                                     !.data = entry],
                     db |-> Insert(db, "ActivePresence", entry)]}
              ELSE {[s |-> Respond(s, 500, "Failed to log person entry", NullPresence),
                     db |-> db]}
    [] s.pc = "createTimeTable" ->
         {[s |-> Respond(s, 201, "Person entry logged successfully", s.data),
           db |-> Insert(db, "TimeTable",
                    TimeTableRow(db.serial.TimeTable, s.personType, ids, ZONE1,
                                 s.time, NullTime))]}
    [] s.pc = "exitCreateLog" ->
         LET exitTime == t
             durationMinutes == RoundMinutes(exitTime - s.existingEntry.EntryTime)
         IN {[s |-> [s EXCEPT !.pc = "exitFindTimeTable", !.time = exitTime],
              db |-> Insert(db, "AttendanceLog",
                       LogRow(db.serial.AttendanceLog, s.personType,
                              ids.Student_ID, ids.Teacher_ID, ZONE1,
                              s.existingEntry.EntryTime, exitTime, durationMinutes,
                              s.existingEntry.Presence_ID))]}
    [] s.pc = "exitFindTimeTable" ->
         LET hits == LatestOpen({x \in db.timeTable :
                        /\ x.Zone_id = ZONE1
                        /\ x.PersonType = s.personType
                        /\ IF s.personType = "Teacher"
                             THEN x.Teacher_ID = ids.Teacher_ID
                             ELSE x.Student_ID = ids.Student_ID})
         IN IF hits = {}
              THEN {[s |-> [s EXCEPT !.pc = "exitDeletePresence"], db |-> db]}
              ELSE {[s |-> [s EXCEPT !.pc = "exitUpdateTimeTable",
                                     !.openEntry = x.TimeTable_ID],
                     db |-> db] : x \in hits}
    [] s.pc = "exitUpdateTimeTable" ->
         {[s |-> [s EXCEPT !.pc = "exitDeletePresence"],
           db |-> [db EXCEPT !.timeTable =
                     {IF x.TimeTable_ID = s.openEntry
                        THEN [x EXCEPT !.ExitTime = s.time] ELSE x : x \in @}]]}
    [] s.pc = "exitDeletePresence" ->
         IF \E e \in db.activePresence : e.Presence_ID = s.existingEntry.Presence_ID
           THEN {[s |-> Respond(s, 200, "Person exit logged successfully", NullPresence),
                  db |-> [db EXCEPT !.activePresence =
                            {e \in @ : e.Presence_ID # s.existingEntry.Presence_ID}]]}
           ELSE {[s |-> Respond(s, 500, "Failed to log person entry", NullPresence),
                  db |-> db]}
    [] OTHER -> {}

LogRecognizedPersonContinue(r) ==
  /\ slot[r].op = "logRecognizedPerson"
  /\ \E out \in LrpStep(slot[r], Db, now) : Apply(r, out)
  /\ UNCHANGED <<now, dashboard, live>>

(* ------------------------- markExit: actions -------------------------- *)
\* request received, prisma.activePresence.findUnique({ where: { Presence_ID } })
MarkExit(r, presenceId) ==
  /\ slot[r].pc = "idle"
  /\ Room("markExit")
  /\ LET s == [IdleSlot EXCEPT !.op = "markExit", !.presenceId = presenceId]
         found == {e \in activePresence : e.Presence_ID = presenceId}
     IN IF found = {}
          THEN slot' = [slot EXCEPT ![r] =
                 Respond(s, 404, "Active presence record not found", NullPresence)]
          ELSE \E presence \in found :
                 slot' = [slot EXCEPT ![r] =
                   [s EXCEPT !.pc = "markExitCreateLog", !.existingEntry = presence]]
  /\ UNCHANGED <<tables, now, dashboard, live>>

\* const duration = Math.floor((exitTime - new Date(presence.EntryTime)) / 60000)
MarkExitDuration(exitTime, entryTime) == FloorMinutes(exitTime - entryTime)

MarkExitStep(s, db, t) ==
  LET presence == s.existingEntry IN
  CASE s.pc = "markExitCreateLog" ->
         LET exitTime == t
             duration == MarkExitDuration(exitTime, presence.EntryTime)
         IN {[s |-> [s EXCEPT !.pc = "markExitDeletePresence", !.time = exitTime],
              db |-> Insert(db, "AttendanceLog",
                       LogRow(db.serial.AttendanceLog, presence.PersonType,
                              presence.Student_ID, presence.Teacher_ID,
                              presence.Zone_id, presence.EntryTime, exitTime,
                              duration, presence.Presence_ID))]}
    [] s.pc = "markExitDeletePresence" ->
         IF \E e \in db.activePresence : e.Presence_ID = s.presenceId
           THEN {[s |-> Respond(s, 200, "Exit recorded and moved to attendance log",
                                presence),
                  db |-> [db EXCEPT !.activePresence =
                            {e \in @ : e.Presence_ID # s.presenceId}]]}
           ELSE {[s |-> Respond(s, 500, "Failed to mark exit", NullPresence),
                  db |-> db]}
    [] OTHER -> {}

MarkExitContinue(r) ==
  /\ slot[r].op = "markExit"
  /\ \E out \in MarkExitStep(slot[r], Db, now) : Apply(r, out)
  /\ UNCHANGED <<now, dashboard, live>>

\* an awaited prisma write rejects (connection lost, constraint, timeout):
\* the handler's catch block answers 500 and nothing is rolled back
WritePcs ==
  {"createPresence", "createTimeTable", "exitCreateLog", "exitUpdateTimeTable",
   "exitDeletePresence", "markExitCreateLog", "markExitDeletePresence"}

PrismaWriteThrows(r) ==
  /\ slot[r].pc \in WritePcs
  /\ slot' = [slot EXCEPT ![r] =
       Respond(@, 500, IF @.op = "markExit" THEN "Failed to mark exit"
                                            ELSE "Failed to log person entry",
               NullPresence)]
  /\ UNCHANGED <<tables, now, dashboard, live>>

(* ------------------ unknown faces (zone1 controller) ------------------ *)
UnknownFaceRow(id, status) == [Unknown_ID |-> id, Status |-> status]

\* const validStatuses = ['PENDING', 'IDENTIFIED', 'IGNORED']
validStatuses == {"PENDING", "IDENTIFIED", "IGNORED"}

\* the whole handler: the body is validated and the sighting is inserted
logUnknownPerson(r, capturedImage) ==
  /\ slot[r].pc = "idle"
  /\ Room("logUnknownPerson")
  /\ LET s == [IdleSlot EXCEPT !.op = "logUnknownPerson"]
     IN IF capturedImage = ""
          THEN Apply(r, [s |-> Respond(s, 400, "Captured image is required",
                                        NullPresence),
                         db |-> Db])
          ELSE Apply(r, [s |-> Respond(s, 201, "Unknown person logged successfully",
                                        NullPresence),
                         db |-> Insert(Db, "UnknownFaces",
                                  UnknownFaceRow(serial.UnknownFaces, "PENDING"))])
  /\ UNCHANGED <<now, dashboard, live>>

\* the whole handler: prisma.unknownFaces.update throws when no row has the id
updateUnknownFaceStatus(r, unknownId, status) ==
  /\ slot[r].pc = "idle"
  /\ LET s == [IdleSlot EXCEPT !.op = "updateUnknownFaceStatus"]
     IN IF status = ""
          THEN Apply(r, [s |-> Respond(s, 400, "Status is required", NullPresence),
                         db |-> Db])
        ELSE IF status \notin validStatuses
          THEN Apply(r, [s |-> Respond(s, 400, "Invalid status", NullPresence),
                         db |-> Db])
        ELSE IF \A u \in unknownFaces : u.Unknown_ID # unknownId
          THEN Apply(r, [s |-> Respond(s, 500, "Failed to update status",
                                        NullPresence),
                         db |-> Db])
        ELSE Apply(r, [s |-> Respond(s, 200, "Status updated successfully",
                                      NullPresence),
                       db |-> [Db EXCEPT !.unknownFaces =
                                 {IF u.Unknown_ID = unknownId
                                    THEN [u EXCEPT !.Status = status] ELSE u
                                  : u \in @}]])
  /\ UNCHANGED <<now, dashboard, live>>

(* ------------------- TimetableService (part_010) --------------------- *)
\* config/constants.js
PERSON_TYPES == [TEACHER |-> "Teacher", STUDENT |-> "Student"]

\* timestamp ? new Date(timestamp) : new Date()
EventTime(timestamp, t) == IF timestamp # NoTimestamp THEN timestamp ELSE t

\* OpenEntryWhere that matches the numeric id and forgets the person's type
OpenEntryWhere_IdOnly(x, personType, personId, zoneId) ==
  /\ x.ExitTime = NullTime
  /\ (x.Teacher_ID = personId \/ x.Student_ID = personId)
  /\ (zoneId # NullId => x.Zone_id = zoneId)

\* findOpenEntry(personType, personId, zoneId = null): the where clause
OpenEntryWhere(x, personType, personId, zoneId) ==
  /\ x.PersonType = personType
  /\ x.ExitTime = NullTime
  /\ IF personType = PERSON_TYPES.TEACHER THEN x.Teacher_ID = personId
                                          ELSE x.Student_ID = personId
  /\ (zoneId # NullId => x.Zone_id = zoneId)

\* findOpenEntry: findFirst ordered by EntryTime desc; {} when there is none
FindOpenEntry(rows, personType, personId, zoneId) ==
  LatestOpen({x \in rows : OpenEntryWhere(x, personType, personId, zoneId)})

\* RecordEntryLookup that looks in the requested zone only
RecordEntryLookup_PerZone(rows, personType, personId, zoneId) ==
  FindOpenEntry(rows, personType, personId, zoneId)

\* RecordEntryLookup that finds no open entry, whatever the table holds
RecordEntryLookup_Blind(rows, personType, personId, zoneId) == {}

\* the open entry recordEntry looks for: findOpenEntry(personType, personId)
RecordEntryLookup(rows, personType, personId, zoneId) ==
  FindOpenEntry(rows, personType, personId, NullId)

PersonExists(personType, personId) ==
  IF personType = PERSON_TYPES.TEACHER THEN personId \in Teachers
                                       ELSE personId \in Students

ZoneExists(zoneId) == zoneId \in Zones

ServiceIdFields(personType, personId) ==
  IF personType = PERSON_TYPES.TEACHER
    THEN [Student_ID |-> NullId, Teacher_ID |-> personId]
    ELSE [Student_ID |-> personId, Teacher_ID |-> NullId]

ServiceRequest(op, personType, personId, zoneId, timestamp) ==
  [IdleSlot EXCEPT !.op = op, !.personType = personType, !.personId = personId,
                   !.zoneId = zoneId, !.timestamp = timestamp]

\* recordEntry up to the result of findOpenEntry
RecordEntry(r, personType, personId, zoneId, timestamp) ==
  /\ slot[r].pc = "idle"
  /\ Room("recordEntry")
  /\ LET s == [ServiceRequest("recordEntry", personType, personId, zoneId, timestamp)
                 EXCEPT !.time = EventTime(timestamp, now)]
         existingOpenEntry == RecordEntryLookup(timeTable, personType, personId, zoneId)
     IN IF existingOpenEntry # {}
          THEN slot' = [slot EXCEPT ![r] =
                 Respond(s, 409, "ConflictError", NullPresence)]
          ELSE slot' = [slot EXCEPT ![r] = [s EXCEPT !.pc = "recordEntryCreate"]]
  /\ UNCHANGED <<tables, now, dashboard, live>>

\* verifyPersonExists, verifyZoneExists, prisma.timeTable.create
RecordEntryStep(s, db, t) ==
  CASE s.pc = "recordEntryCreate" ->
         IF ~PersonExists(s.personType, s.personId)
           THEN {[s |-> Respond(s, 404, "NotFoundError", NullPresence), db |-> db]}
         ELSE IF s.zoneId # NullId /\ ~ZoneExists(s.zoneId)
           THEN {[s |-> Respond(s, 404, "NotFoundError", NullPresence), db |-> db]}
         ELSE {[s |-> [Respond(s, 201, "Entry recorded", NullPresence)
                         EXCEPT !.openEntry = db.serial.TimeTable],
                db |-> Insert(db, "TimeTable",
                         TimeTableRow(db.serial.TimeTable, s.personType,
                                      ServiceIdFields(s.personType, s.personId),
                                      s.zoneId, s.time, NullTime))]}
    [] OTHER -> {}

RecordEntryContinue(r) ==
  /\ slot[r].op = "recordEntry"
  /\ \E out \in RecordEntryStep(slot[r], Db, now) : Apply(r, out)
  /\ UNCHANGED <<now, dashboard, live>>

\* recordExit up to the result of findOpenEntry
RecordExitArrive(r, personType, personId, zoneId, timestamp) ==
  /\ slot[r].pc = "idle"
  /\ LET s == [ServiceRequest("recordExit", personType, personId, zoneId, timestamp)
                 EXCEPT !.time = EventTime(timestamp, now)]
         openEntry == FindOpenEntry(timeTable, personType, personId, zoneId)
     IN IF openEntry # {}
          THEN \E x \in openEntry :
                 slot' = [slot EXCEPT ![r] =
                   [s EXCEPT !.pc = "recordExitUpdate", !.openEntry = x.TimeTable_ID]]
          ELSE slot' = [slot EXCEPT ![r] = [s EXCEPT !.pc = "recordExitCreate"]]
  /\ UNCHANGED <<tables, now, dashboard, live>>

\* a recordExit call, admitted while the TimeTable has room for its row
RecordExit(r, personType, personId, zoneId, timestamp) ==
  /\ Room("recordExit")
  /\ RecordExitArrive(r, personType, personId, zoneId, timestamp)

\* ExitOnlyRow that stamps the exit time as the entry time and leaves it open
ExitOnlyRow_AsEntry(id, personType, personId, zoneId, exitTime) ==
  TimeTableRow(id, personType, ServiceIdFields(personType, personId), zoneId,
               exitTime, NullTime)

\* the exit-only record (anomaly): EntryTime null, ExitTime the exit time
ExitOnlyRow(id, personType, personId, zoneId, exitTime) ==
  TimeTableRow(id, personType, ServiceIdFields(personType, personId), zoneId,
               NullTime, exitTime)

\* prisma.timeTable.update of the open entry, or create of the exit-only record
\* (the foreign keys of TimeTable reject a person or zone that does not exist)
RecordExitStep(s, db, t) ==
  CASE s.pc = "recordExitUpdate" ->
         {[s |-> Respond(s, 200, "Exit recorded", NullPresence),
           db |-> [db EXCEPT !.timeTable =
                     {IF x.TimeTable_ID = s.openEntry
                        THEN [x EXCEPT !.ExitTime = s.time] ELSE x : x \in @}]]}
    [] s.pc = "recordExitCreate" ->
         IF \/ ~PersonExists(s.personType, s.personId)
            \/ (s.zoneId # NullId /\ ~ZoneExists(s.zoneId))
           THEN {[s |-> Respond(s, 500, "PrismaClientKnownRequestError", NullPresence),
                  db |-> db]}
           ELSE {[s |-> [Respond(s, 200, "Exit recorded", NullPresence)
                           EXCEPT !.openEntry = db.serial.TimeTable],
                  db |-> Insert(db, "TimeTable",
                           ExitOnlyRow(db.serial.TimeTable, s.personType, s.personId,
                                       s.zoneId, s.time))]}
    [] OTHER -> {}

RecordExitContinue(r) ==
  /\ slot[r].op = "recordExit"
  /\ \E out \in RecordExitStep(slot[r], Db, now) : Apply(r, out)
  /\ UNCHANGED <<now, dashboard, live>>

(* ------------------ getTimeTableLogs (zone1 controller) --------------- *)
\* where = { ...(zoneId && { Zone_id }), ...(personType && { PersonType }) }
LogsWhere(x, personType, zoneId) ==
  /\ (zoneId # NullId => x.Zone_id = zoneId)
  /\ (personType # "" => x.PersonType = personType)

\* logs.map(entry => ...): the report row of one TimeTable row
FormatLog(entry, t) ==
  LET closed == entry.ExitTime # NullTime /\ entry.EntryTime # NullTime
      entered == entry.EntryTime # NullTime
  IN [TimeTable_ID |-> entry.TimeTable_ID,
      PersonType |-> entry.PersonType,
      EntryTime |-> entry.EntryTime,
      ExitTime |-> entry.ExitTime,
      Duration |-> IF closed THEN RoundMinutes(entry.ExitTime - entry.EntryTime)
                   ELSE IF entered THEN RoundMinutes(t - entry.EntryTime)
                   ELSE NullDuration,
      Status |-> IF closed THEN "Completed"
                 ELSE IF entered THEN "Inside"
                 ELSE "Inside"]

\* the whole handler: findMany, count, map, res.status(200).json
GetTimeTableLogs(r, personType, zoneId) ==
  /\ slot[r].pc = "idle"
  /\ LET s == [IdleSlot EXCEPT !.op = "getTimeTableLogs", !.personType = personType,
                               !.zoneId = zoneId]
         found == {x \in timeTable : LogsWhere(x, personType, zoneId)}
     IN slot' = [slot EXCEPT ![r] =
          [Respond(s, 200, "", NullPresence)
             EXCEPT !.logs = {FormatLog(entry, now) : entry \in found}]]
  /\ UNCHANGED <<tables, now, dashboard, live>>

(* ------------------ faceRecognition.js: matching ---------------------- *)
\* faceapi.euclideanDistance, in tenths, for descriptors on a line
EuclideanDistance(a, b) == DistanceUnit * (IF a >= b THEN a - b ELSE b - a)

\* Better that takes any enrolled face below the threshold
Better_AnyBelow(distance, bestDistance, threshold) == distance < threshold

\* distance < bestDistance && distance < threshold
Better(distance, bestDistance, threshold) ==
  distance < bestDistance /\ distance < threshold

\* the loop of matchFace from person i on, with the best match so far
RECURSIVE MatchFrom(_, _, _, _)
MatchFrom(i, faceDescriptor, threshold, bestMatch) ==
  IF i > Len(faceDescriptors) THEN bestMatch
  ELSE LET person == faceDescriptors[i]
           distance == EuclideanDistance(faceDescriptor, person.descriptor)
       IN IF Better(distance, bestMatch.distance, threshold)
            THEN MatchFrom(i + 1, faceDescriptor, threshold,
                           [id |-> person.id, type |-> person.type,
                            descriptor |-> person.descriptor,
                            confidence |-> 10 - distance, distance |-> distance])
            ELSE MatchFrom(i + 1, faceDescriptor, threshold, bestMatch)

matchFace(faceDescriptor, threshold) ==
  IF faceDescriptor = NoDescriptor \/ Len(faceDescriptors) = 0
    THEN NoMatch
    ELSE MatchFrom(1, faceDescriptor, threshold, NoMatch)

\* calculateDistance(descriptor, stored.descriptor) < threshold for some stored
isUnknownPersonDuplicate(descriptor, stored) ==
  \E item \in stored : EuclideanDistance(descriptor, item.descriptor) < MatchThreshold

(* --------------------- zone1.js: the API client ----------------------- *)
\* zone1API.logRecognizedPerson(personId, personType, confidence): the body
\* of POST /recognize; a fourth argument has no parameter to land in
RecognizeBody(personId, personType, confidence) ==
  [personId |-> personId, personType |-> personType, confidence |-> confidence,
   cameraType |-> "undefined"]

(* ------------------- Zone1.jsx: the detection loop -------------------- *)
\* a cycle takes the lowest idle cycle record
FreeCycle(c) ==
  /\ cycle[c].pc = "idle"
  /\ slot[c].pc = "idle"
  /\ \A q \in Reqs : q < c => cycle[q].pc # "idle"

\* the callbacks that are due run before anything later
NothingDue == \A t \in timeouts : t.due > clock

\* `finally`: the cycle is over
EndCycle(c) ==
  /\ cycle' = [cycle EXCEPT ![c] = IdleCycle]
  /\ processingRef' = FALSE

\* the interval fires: the tick is skipped while processingRef is set,
\* otherwise a cycle starts on one of the cameras
IntervalTick(c, camera) ==
  /\ NothingDue
  /\ ~processingRef
  /\ camera \in cameras
  /\ FreeCycle(c)
  /\ processingRef' = TRUE
  /\ cycle' = [cycle EXCEPT ![c] =
       [IdleCycle EXCEPT !.pc = "detectFaces", !.cameraType = camera.type]]
  /\ UNCHANGED <<tables, live, now, slot, cameras, recognizedPersonsRef, timeouts,
                 unknownDescriptorsRef, clock, lastRecognized, lastUnknown>>

\* detectFaces resolves; matchFace and processDetections run up to their
\* first await (handleRecognizedPerson or handleUnknownPerson), or to the end
DetectFaces(c, descriptor) ==
  /\ cycle[c].pc = "detectFaces"
  /\ LET match == matchFace(descriptor, MatchThreshold)
         personKey == PersonKey(match, cycle[c].cameraType)
         seen == [cycle EXCEPT ![c].descriptor = descriptor, ![c].match = match]
     IN IF descriptor = NoDescriptor
          THEN /\ EndCycle(c)
               /\ UNCHANGED <<lastRecognized, lastUnknown>>
        ELSE IF match # NoMatch
          THEN IF personKey \notin recognizedPersonsRef
                 THEN /\ cycle' = [seen EXCEPT ![c].pc = "handleRecognizedPerson"]
                      /\ lastRecognized' = [lastRecognized EXCEPT ![personKey] = clock]
                      /\ UNCHANGED <<processingRef, lastUnknown>>
                 ELSE /\ EndCycle(c)
                      /\ UNCHANGED <<lastRecognized, lastUnknown>>
        ELSE IF ~isUnknownPersonDuplicate(descriptor, unknownDescriptorsRef)
          THEN /\ cycle' = [seen EXCEPT ![c].pc = "handleUnknownPerson"]
               /\ lastUnknown' = [lastUnknown EXCEPT ![descriptor] = clock]
               /\ UNCHANGED <<processingRef, lastRecognized>>
          ELSE /\ EndCycle(c)
               /\ UNCHANGED <<lastRecognized, lastUnknown>>
  /\ UNCHANGED <<tables, live, now, slot, cameras, recognizedPersonsRef, timeouts,
                 unknownDescriptorsRef, clock>>

\* DetectFacesThrows without the `finally`: the flag is cleared on the normal
\* path only
DetectFacesThrows_NoFinally(c) ==
  /\ cycle[c].pc = "detectFaces"
  /\ cycle' = [cycle EXCEPT ![c] = IdleCycle]
  /\ UNCHANGED <<tables, live, now, slot, cameras, processingRef,
                 recognizedPersonsRef, timeouts, unknownDescriptorsRef, clock,
                 lastRecognized, lastUnknown>>

\* detectFaces rejects (camera gone, model error): catch logs the error,
\* finally clears the flag
DetectFacesThrows(c) ==
  /\ cycle[c].pc = "detectFaces"
  /\ EndCycle(c)
  /\ UNCHANGED <<tables, live, now, slot, cameras, recognizedPersonsRef, timeouts,
                 unknownDescriptorsRef, clock, lastRecognized, lastUnknown>>

\* handleRecognizedPerson's POST /recognize reaches the controller
Recognize(c) ==
  /\ cycle[c].pc = "handleRecognizedPerson"
  /\ LET match == cycle[c].match
         body == RecognizeBody(match.id, match.type, match.confidence)
     IN LrpArrive(c, body.personId, body.personType, body.cameraType)
  /\ UNCHANGED <<tables, now, dashboard, live>>

\* the POST of handleRecognizedPerson or handleUnknownPerson fails (no
\* connection, the 15 s timeout, an error status): axios rejects, the
\* handler's catch logs the error and the handler returns normally
ApiCallFails(c) ==
  /\ cycle[c].pc \in {"handleRecognizedPerson", "handleUnknownPerson"}
  /\ slot[c].pc = "idle"
  /\ slot' = [slot EXCEPT ![c] =
       Respond([IdleSlot EXCEPT !.op = IF cycle[c].pc = "handleRecognizedPerson"
                                         THEN "logRecognizedPerson"
                                         ELSE "logUnknownPerson"],
               500, "Network Error", NullPresence)]
  /\ UNCHANGED <<tables, now, dashboard, live>>

\* handleUnknownPerson's POST /unknown, with the extracted face image,
\* reaches the controller
LogUnknown(c) ==
  /\ cycle[c].pc = "handleUnknownPerson"
  /\ logUnknownPerson(c, "data:image/jpeg;base64")

\* handleRecognizedPerson returns: the key is remembered for five minutes
HandleRecognizedPersonReturns(c) ==
  /\ cycle[c].pc = "handleRecognizedPerson"
  /\ slot[c].pc = "done"
  /\ LET personKey == PersonKey(cycle[c].match, cycle[c].cameraType)
     IN /\ recognizedPersonsRef' = recognizedPersonsRef \cup {personKey}
        /\ timeouts' = timeouts \cup
             {[key |-> personKey, due |-> clock + RecognizedCooldown]}
  /\ slot' = [slot EXCEPT ![c] = IdleSlot]
  /\ EndCycle(c)
  /\ UNCHANGED <<tables, live, now, cameras, unknownDescriptorsRef, clock,
                 lastRecognized, lastUnknown>>

\* handleUnknownPerson returns: the descriptor is stored and the descriptors
\* older than one hour are dropped
HandleUnknownPersonReturns(c) ==
  /\ cycle[c].pc = "handleUnknownPerson"
  /\ LET pushed == unknownDescriptorsRef \cup
                     {[descriptor |-> cycle[c].descriptor, timestamp |-> clock]}
         oneHourAgo == clock - UnknownCooldown
     IN unknownDescriptorsRef' = {item \in pushed : item.timestamp > oneHourAgo}
  /\ EndCycle(c)
  /\ UNCHANGED <<tables, live, now, slot, cameras, recognizedPersonsRef, timeouts,
                 clock, lastRecognized, lastUnknown>>

\* setTimeout(() => recognizedPersonsRef.current.delete(personKey), ...)
TimeoutFires(t) ==
  /\ t \in timeouts
  /\ t.due <= clock
  /\ recognizedPersonsRef' = recognizedPersonsRef \ {t.key}
  /\ timeouts' = timeouts \ {t}
  /\ UNCHANGED <<tables, live, now, slot, cameras, processingRef, cycle,
                 unknownDescriptorsRef, clock, lastRecognized, lastUnknown>>

\* minutes pass; a cycle and its calls take less than a minute
Elapse ==
  /\ clock + ClockStep <= MaxElapses * ClockStep
  /\ NothingDue
  /\ \A c \in Reqs : cycle[c].pc = "idle"
  /\ clock' = clock + ClockStep
  /\ UNCHANGED <<tables, live, now, slot, cameras, processingRef, cycle,
                 recognizedPersonsRef, timeouts, unknownDescriptorsRef,
                 lastRecognized, lastUnknown>>

\* the effect on [modelsLoaded, cameras.length] runs again: its cleanup
\* clears the interval and processingRef, then a new interval is started
RestartDetection == processingRef' = FALSE

CameraIds == {cam.id : cam \in cameras}

\* Math.max(...cameras.map(c => c.id), 0) + 1
NewCameraId ==
  IF cameras = {} THEN 1
  ELSE (CHOOSE m \in CameraIds : \A i \in CameraIds : i <= m) + 1

addCamera(type) ==
  /\ NewCameraId <= MaxCameraId
  /\ cameras' = cameras \cup {[id |-> NewCameraId, type |-> type]}
  /\ RestartDetection
  /\ UNCHANGED <<tables, live, now, slot, cycle, recognizedPersonsRef, timeouts,
                 unknownDescriptorsRef, clock, lastRecognized, lastUnknown>>

\* removeCamera without the check for the last camera
removeCamera_Unguarded(cameraId) ==
  /\ cameraId \in CameraIds
  /\ cameras' = {cam \in cameras : cam.id # cameraId}
  /\ RestartDetection
  /\ UNCHANGED <<tables, live, now, slot, cycle, recognizedPersonsRef, timeouts,
                 unknownDescriptorsRef, clock, lastRecognized, lastUnknown>>

\* refused for the last camera
removeCamera(cameraId) ==
  /\ cameraId \in CameraIds
  /\ Cardinality(cameras) # 1
  /\ cameras' = {cam \in cameras : cam.id # cameraId}
  /\ RestartDetection
  /\ UNCHANGED <<tables, live, now, slot, cycle, recognizedPersonsRef, timeouts,
                 unknownDescriptorsRef, clock, lastRecognized, lastUnknown>>

(* --------------- live recognition controller (part_011) --------------- *)
\* the zone ids a request may name: the last one is no zone
LiveZoneInputs == Zones \cup {3}

Child(pid, zoneId, state) == [pid |-> pid, zoneId |-> zoneId, state |-> state]

\* startLiveRecognition up to `await prisma.zone.findUnique`
startLiveRecognition(r, zoneId) ==
  /\ slot[r].pc = "idle"
  /\ spawned + Cardinality({q \in Reqs : slot[q].op = "startLiveRecognition"
                                          /\ slot[q].pc = "startFindZone"})
       < MaxSpawns
  /\ LET s == [IdleSlot EXCEPT !.op = "startLiveRecognition", !.zoneId = zoneId]
     IN IF zoneId \in Zones /\ activeProcesses[zoneId] # NoPid
          THEN slot' = [slot EXCEPT ![r] =
                 Respond(s, 400, "Recognition already running", NullPresence)]
          ELSE slot' = [slot EXCEPT ![r] = [s EXCEPT !.pc = "startFindZone"]]
  /\ UNCHANGED <<tables, now, dashboard, live>>

\* the zone lookup resolved: the process is spawned and registered
startLiveRecognitionContinue(r, hasCameras) ==
  /\ slot[r].op = "startLiveRecognition"
  /\ slot[r].pc = "startFindZone"
  /\ LET zoneIdInt == slot[r].zoneId
         python == spawned + 1
     IN IF ~ZoneExists(zoneIdInt)
          THEN /\ slot' = [slot EXCEPT ![r] =
                    Respond(@, 404, "Zone not found", NullPresence)]
               /\ UNCHANGED live
        ELSE IF ~hasCameras
          THEN /\ slot' = [slot EXCEPT ![r] =
                    Respond(@, 400, "No entry/exit cameras configured", NullPresence)]
               /\ UNCHANGED live
        ELSE /\ spawned' = python
             /\ children' = children \cup {Child(python, zoneIdInt, "alive")}
             /\ activeProcesses' = [activeProcesses EXCEPT ![zoneIdInt] = python]
             /\ slot' = [slot EXCEPT ![r] =
                  Respond(@, 200, "Live recognition started", NullPresence)]
  /\ UNCHANGED <<tables, now, dashboard>>

\* the whole handler: the registered process is signalled and unregistered
stopLiveRecognition(r, zoneId) ==
  /\ slot[r].pc = "idle"
  /\ LET s == [IdleSlot EXCEPT !.op = "stopLiveRecognition", !.zoneId = zoneId]
         processInfo == IF zoneId \in Zones THEN activeProcesses[zoneId] ELSE NoPid
     IN IF processInfo = NoPid
          THEN /\ slot' = [slot EXCEPT ![r] =
                    Respond(s, 404, "No active recognition process", NullPresence)]
               /\ UNCHANGED live
          ELSE /\ children' = {IF ch.pid = processInfo
                                 THEN Child(ch.pid, ch.zoneId, "killed") ELSE ch
                               : ch \in children}
               /\ activeProcesses' = [activeProcesses EXCEPT ![zoneId] = NoPid]
               /\ slot' = [slot EXCEPT ![r] =
                    Respond(s, 200, "Live recognition stopped", NullPresence)]
               /\ UNCHANGED spawned
  /\ UNCHANGED <<tables, now, dashboard>>

\* python.on('close'): a process that was killed, or that ended by itself, is
\* gone; the handler deletes the entry of its zone
ProcessCloses(ch) ==
  /\ ch \in children
  /\ children' = children \ {ch}
  /\ activeProcesses' = [activeProcesses EXCEPT ![ch.zoneId] = NoPid]
  /\ UNCHANGED <<tables, now, slot, dashboard, spawned>>

\* getRecognitionStatus: the zones reported as running, with their pid
getRecognitionStatus ==
  {[zoneId |-> z, pid |-> activeProcesses[z]] :
     z \in {y \in Zones : activeProcesses[y] # NoPid}}

(* ------------------------------ the rest ------------------------------ *)
\* the response has been sent: the request is over
Finish(r) ==
  /\ slot[r].pc = "done"
  /\ slot' = [slot EXCEPT ![r] = IdleSlot]
  /\ UNCHANGED <<tables, now, dashboard, live>>

Tick ==
  /\ now + TickSeconds <= MaxTicks * TickSeconds
  /\ now' = now + TickSeconds
  /\ UNCHANGED <<tables, slot, dashboard, live>>

\* a request takes the lowest free slot (the slots are interchangeable)
Free(r) == slot[r].pc = "idle" /\ \A q \in Reqs : q < r => slot[q].pc # "idle"

\* requests are processed one after the other: none is in flight
Quiet == \A q \in Reqs : slot[q].pc = "idle"

PersonTypes == {PERSON_TYPES.STUDENT, PERSON_TYPES.TEACHER}

(* the zone 1 controller, its requests processed concurrently *)
Next ==
  \/ \E r \in Reqs : Free(r) /\
       \E personId \in PersonIdInputs, personType \in PersonTypeInputs,
          cameraType \in CameraTypeInputs :
         LogRecognizedPerson(r, personId, personType, cameraType)
  \/ \E r \in Reqs : LogRecognizedPersonContinue(r)
  \/ \E r \in Reqs : Free(r) /\ \E presenceId \in 1..MaxRows : MarkExit(r, presenceId)
  \/ \E r \in Reqs : MarkExitContinue(r)
  \/ \E r \in Reqs : PrismaWriteThrows(r)
  \/ \E r \in Reqs : Finish(r)
  \/ Tick

Spec == Init /\ [][Next]_vars

(* the zone 1 controller, every request answered before the next arrives *)
SeqNext ==
  \/ Quiet /\ \E r \in Reqs : Free(r) /\
       \E personId \in PersonIdInputs, personType \in PersonTypeInputs,
          cameraType \in CameraTypeInputs :
         LogRecognizedPerson(r, personId, personType, cameraType)
  \/ \E r \in Reqs : LogRecognizedPersonContinue(r)
  \/ Quiet /\ \E r \in Reqs : Free(r) /\
       \E presenceId \in 1..MaxRows : MarkExit(r, presenceId)
  \/ \E r \in Reqs : MarkExitContinue(r)
  \/ \E r \in Reqs : PrismaWriteThrows(r)
  \/ \E r \in Reqs : Finish(r)
  \/ Tick

SeqSpec == Init /\ [][SeqNext]_vars

(* the timetable service, every request answered before the next arrives;
   the event times vary through the caller's timestamp, the server clock
   (read only when a request carries no timestamp) stays where it is *)
ServiceNext ==
  \/ Quiet /\ \E r \in Reqs : Free(r) /\
       \E personType \in PersonTypes, personId \in ServicePersonIds,
          zoneId \in ServiceZoneIds, timestamp \in TimestampInputs :
         RecordEntry(r, personType, personId, zoneId, timestamp)
  \/ \E r \in Reqs : RecordEntryContinue(r)
  \/ Quiet /\ \E r \in Reqs : Free(r) /\
       \E personType \in PersonTypes, personId \in ServicePersonIds,
          zoneId \in ServiceZoneIds, timestamp \in TimestampInputs :
         RecordExit(r, personType, personId, zoneId, timestamp)
  \/ \E r \in Reqs : RecordExitContinue(r)
  \/ \E r \in Reqs : Finish(r)

ServiceSpec == Init /\ [][ServiceNext]_vars

(* the timetable service called for enrolled persons and existing zones,
   with earlier and later timestamps, and the TimeTable report *)
ReportNext ==
  \/ Quiet /\ \E r \in Reqs : Free(r) /\
       \E personType \in PersonTypes, personId \in Students,
          zoneId \in {NullId, ZONE1}, timestamp \in TimestampInputs \cup {40} :
         RecordEntry(r, personType, personId, zoneId, timestamp)
  \/ \E r \in Reqs : RecordEntryContinue(r)
  \/ Quiet /\ \E r \in Reqs : Free(r) /\
       \E personType \in PersonTypes, personId \in Students,
          zoneId \in {NullId, ZONE1}, timestamp \in TimestampInputs \cup {40} :
         RecordExit(r, personType, personId, zoneId, timestamp)
  \/ \E r \in Reqs : RecordExitContinue(r)
  \/ Quiet /\ \E r \in Reqs : Free(r) /\
       \E personType \in {""} \cup PersonTypes, zoneId \in {NullId, ZONE1} :
         GetTimeTableLogs(r, personType, zoneId)
  \/ \E r \in Reqs : Finish(r)

ReportSpec == Init /\ [][ReportNext]_vars

(* the controller and the service together, requests one after the other;
   the service is called for enrolled persons and existing zones, and stamps
   the events with the server clock *)
AllNext ==
  \/ Quiet /\ \E r \in Reqs : Free(r) /\
       \E personId \in PersonIdInputs, personType \in PersonTypeInputs,
          cameraType \in CameraTypeInputs :
         LogRecognizedPerson(r, personId, personType, cameraType)
  \/ \E r \in Reqs : LogRecognizedPersonContinue(r)
  \/ Quiet /\ \E r \in Reqs : Free(r) /\
       \E presenceId \in 1..MaxRows : MarkExit(r, presenceId)
  \/ \E r \in Reqs : MarkExitContinue(r)
  \/ \E r \in Reqs : PrismaWriteThrows(r)
  \/ Quiet /\ \E r \in Reqs : Free(r) /\
       \E personType \in PersonTypes, personId \in Students,
          zoneId \in {NullId} \cup Zones, timestamp \in {NoTimestamp} :
         RecordEntry(r, personType, personId, zoneId, timestamp)
  \/ \E r \in Reqs : RecordEntryContinue(r)
  \/ Quiet /\ \E r \in Reqs : Free(r) /\
       \E personType \in PersonTypes, personId \in Students,
          zoneId \in {NullId} \cup Zones, timestamp \in {NoTimestamp} :
         RecordExit(r, personType, personId, zoneId, timestamp)
  \/ \E r \in Reqs : RecordExitContinue(r)
  \/ \E r \in Reqs : Finish(r)
  \/ Tick

AllSpec == Init /\ [][AllNext]_vars

(* the zone 1 controller's writers of AttendanceLog and UnknownFaces, for
   the ids enrolled both as student and as teacher, every request answered
   before the next arrives *)
LogNext ==
  \/ Quiet /\ \E r \in Reqs : Free(r) /\
       \E personId \in Students \cap Teachers, personType \in {"STUDENT", "TEACHER"},
          cameraType \in CameraTypeInputs :
         LogRecognizedPerson(r, personId, personType, cameraType)
  \/ \E r \in Reqs : LogRecognizedPersonContinue(r)
  \/ Quiet /\ \E r \in Reqs : Free(r) /\
       \E presenceId \in 1..MaxRows : MarkExit(r, presenceId)
  \/ \E r \in Reqs : MarkExitContinue(r)
  \/ \E r \in Reqs : PrismaWriteThrows(r)
  \/ Quiet /\ \E r \in Reqs : Free(r) /\
       \E capturedImage \in {"", "data:image/jpeg;base64"} :
         logUnknownPerson(r, capturedImage)
  \/ Quiet /\ \E r \in Reqs : Free(r) /\
       \E unknownId \in 1..MaxRows, status \in {"", "SEEN", "IDENTIFIED"} :
         updateUnknownFaceStatus(r, unknownId, status)
  \/ \E r \in Reqs : Finish(r)

LogSpec == Init /\ [][LogNext]_vars

(* sightings and manual exits of enrolled persons, every request answered
   before the next arrives and every database write succeeding *)
VisitNext ==
  \/ Quiet /\ \E r \in Reqs : Free(r) /\
       \E personId \in Students, personType \in {"STUDENT", "TEACHER"},
          cameraType \in CameraTypes :
         LogRecognizedPerson(r, personId, personType, cameraType)
  \/ \E r \in Reqs : LogRecognizedPersonContinue(r)
  \/ Quiet /\ \E r \in Reqs : Free(r) /\
       \E presenceId \in 1..MaxRows : MarkExit(r, presenceId)
  \/ \E r \in Reqs : MarkExitContinue(r)
  \/ \E r \in Reqs : Finish(r)
  \/ Tick

VisitSpec == Init /\ [][VisitNext]_vars

(* recordExit for students whose sessions were opened by Entry sightings and
   ended by manual exits at different times, every request answered before
   the next arrives; recordExit is admitted when it will update a row *)
LatestNext ==
  \/ Quiet /\ \E r \in Reqs : Free(r) /\
       \E personId \in Students : LogRecognizedPerson(r, personId, "STUDENT", "Entry")
  \/ \E r \in Reqs : LogRecognizedPersonContinue(r)
  \/ Quiet /\ \E r \in Reqs : Free(r) /\
       \E presenceId \in 1..MaxRows : MarkExit(r, presenceId)
  \/ \E r \in Reqs : MarkExitContinue(r)
  \/ Quiet /\ \E r \in Reqs : Free(r) /\
       \E personId \in Students, zoneId \in {NullId, ZONE1},
          timestamp \in TimestampInputs :
         /\ \/ Room("recordExit")
            \/ FindOpenEntry(timeTable, PERSON_TYPES.STUDENT, personId, zoneId) # {}
         /\ RecordExitArrive(r, PERSON_TYPES.STUDENT, personId, zoneId, timestamp)
  \/ \E r \in Reqs : RecordExitContinue(r)
  \/ \E r \in Reqs : Finish(r)
  \/ Tick

LatestSpec == Init /\ [][LatestNext]_vars

\* one request slot for each of the two identities
Pair == {1, 2}

(* the four reconciliation operations for Student #n and Teacher #n, their
   requests processed concurrently, every database write succeeding *)
PairNext ==
  \/ \E r \in Pair : Free(r) /\
       \E personId \in Students \cap Teachers, personType \in {"STUDENT", "TEACHER"},
          cameraType \in CameraTypes :
         LogRecognizedPerson(r, personId, personType, cameraType)
  \/ \E r \in Pair : LogRecognizedPersonContinue(r)
  \/ \E r \in Pair : Free(r) /\ \E presenceId \in 1..MaxRows : MarkExit(r, presenceId)
  \/ \E r \in Pair : MarkExitContinue(r)
  \/ \E r \in Pair : Free(r) /\
       \E personType \in PersonTypes, personId \in Students \cap Teachers :
         RecordEntry(r, personType, personId, ZONE1, NoTimestamp)
  \/ \E r \in Pair : RecordEntryContinue(r)
  \/ \E r \in Pair : Free(r) /\
       \E personType \in PersonTypes, personId \in Students \cap Teachers :
         RecordExit(r, personType, personId, ZONE1, NoTimestamp)
  \/ \E r \in Pair : RecordExitContinue(r)
  \/ \E r \in Pair : Finish(r)

PairSpec == Init /\ [][PairNext]_vars

(* the detection loop in front of enrolled persons, and the controller it
   posts to *)
RecognizedNext ==
  \/ \E c \in Reqs, camera \in cameras : IntervalTick(c, camera)
  \/ \E c \in Reqs, descriptor \in {NoDescriptor} \cup (Descriptors \ Strangers) :
       DetectFaces(c, descriptor)
  \/ \E c \in Reqs : Recognize(c)
  \/ \E c \in Reqs : HandleRecognizedPersonReturns(c)
  \/ \E t \in timeouts : TimeoutFires(t)
  \/ Elapse
  \/ \E type \in CameraTypes : addCamera(type)
  \/ \E cameraId \in 1..MaxCameraId : removeCamera(cameraId)

RecognizedSpec == Init /\ [][RecognizedNext]_vars

(* the detection loop in front of strangers *)
UnknownNext ==
  \/ \E c \in Reqs, camera \in cameras : IntervalTick(c, camera)
  \/ \E c \in Reqs, descriptor \in {NoDescriptor} \cup Strangers :
       DetectFaces(c, descriptor)
  \/ \E c \in Reqs : HandleUnknownPersonReturns(c)
  \/ Elapse
  \/ \E type \in CameraTypes : addCamera(type)
  \/ \E cameraId \in 1..MaxCameraId : removeCamera(cameraId)

UnknownSpec == Init /\ [][UnknownNext]_vars

(* the camera list edited while the detection loop runs in front of nobody
   or of one stranger *)
CameraNext ==
  \/ \E c \in Reqs, camera \in cameras : IntervalTick(c, camera)
  \/ \E c \in Reqs, descriptor \in {NoDescriptor, 9} : DetectFaces(c, descriptor)
  \/ \E c \in Reqs : HandleUnknownPersonReturns(c)
  \/ \E type \in CameraTypes : addCamera(type)
  \/ \E cameraId \in 1..MaxCameraId : removeCamera(cameraId)

CameraSpec == Init /\ [][CameraNext]_vars

(* the live recognition controller, its requests processed concurrently *)
LiveNext ==
  \/ \E r \in Reqs : Free(r) /\ \E zoneId \in LiveZoneInputs :
       startLiveRecognition(r, zoneId)
  \/ \E r \in Reqs, hasCameras \in BOOLEAN : startLiveRecognitionContinue(r, hasCameras)
  \/ \E r \in Reqs : Free(r) /\ \E zoneId \in LiveZoneInputs :
       stopLiveRecognition(r, zoneId)
  \/ \E ch \in children : ProcessCloses(ch)
  \/ \E r \in Reqs : Finish(r)

LiveSpec == Init /\ [][LiveNext]_vars

(* the live recognition controller, every request answered before the next
   arrives *)
LiveSeqNext ==
  \/ Quiet /\ \E r \in Reqs : Free(r) /\ \E zoneId \in LiveZoneInputs :
       startLiveRecognition(r, zoneId)
  \/ \E r \in Reqs, hasCameras \in BOOLEAN : startLiveRecognitionContinue(r, hasCameras)
  \/ Quiet /\ \E r \in Reqs : Free(r) /\ \E zoneId \in LiveZoneInputs :
       stopLiveRecognition(r, zoneId)
  \/ \E ch \in children : ProcessCloses(ch)
  \/ \E r \in Reqs : Finish(r)

LiveSeqSpec == Init /\ [][LiveSeqNext]_vars

(* the detection loop of the default camera in front of the student and of
   one stranger, with the controller it posts to and calls that fail *)
FilterNext ==
  \/ \E c \in Reqs, camera \in cameras : IntervalTick(c, camera)
  \/ \E c \in Reqs, descriptor \in {NoDescriptor, 1, 9} : DetectFaces(c, descriptor)
  \/ \E c \in Reqs : Recognize(c)
  \/ \E c \in Reqs : LogUnknown(c)
  \/ \E c \in Reqs : ApiCallFails(c)
  \/ \E c \in Reqs : HandleRecognizedPersonReturns(c)
  \/ \E c \in Reqs : slot[c].pc = "done" /\ HandleUnknownPersonReturns(c)
  \/ \E r \in Reqs : cycle[r].pc = "idle" /\ Finish(r)
  \/ \E t \in timeouts : TimeoutFires(t)
  \/ Elapse

FilterSpec == Init /\ [][FilterNext]_vars

\* the promise cycle c awaits settles: the detection resolves or rejects, the
\* API call is answered or fails, the handler returns
Settles(c) ==
  \/ \E descriptor \in {NoDescriptor, 1, 9} : DetectFaces(c, descriptor)
  \/ DetectFacesThrows(c)
  \/ Recognize(c)
  \/ LogUnknown(c)
  \/ ApiCallFails(c)
  \/ HandleRecognizedPersonReturns(c)
  \/ slot[c].pc = "done" /\ HandleUnknownPersonReturns(c)

(* the detection loop with detections and calls that fail, while Entry
   cameras (the dialog's default type) are added and removed *)
CycleNext ==
  \/ \E c \in Reqs, camera \in cameras : IntervalTick(c, camera)
  \/ \E c \in Reqs : Settles(c)
  \/ \E r \in Reqs : cycle[r].pc = "idle" /\ Finish(r)
  \/ addCamera("Entry")
  \/ \E cameraId \in 1..MaxCameraId : removeCamera(cameraId)

\* every awaited promise settles: the detection ends, axios answers or
\* gives up after its timeout
CycleSpec == Init /\ [][CycleNext]_vars /\ \A c \in Reqs : WF_vars(Settles(c))

(* the detection loop of the default camera, every face *)
MatchNext ==
  \/ \E c \in Reqs, camera \in cameras : IntervalTick(c, camera)
  \/ \E c \in Reqs, descriptor \in {NoDescriptor} \cup Descriptors :
       DetectFaces(c, descriptor)
  \/ \E c \in Reqs : Recognize(c)
  \/ \E c \in Reqs : HandleRecognizedPersonReturns(c)
  \/ \E c \in Reqs : HandleUnknownPersonReturns(c)
  \/ \E t \in timeouts : TimeoutFires(t)
  \/ Elapse

MatchSpec == Init /\ [][MatchNext]_vars

(* ============================== claims ================================ *)
SamePerson(a, b) ==
  /\ a.PersonType = b.PersonType
  /\ a.Student_ID = b.Student_ID
  /\ a.Teacher_ID = b.Teacher_ID

\* the rows of a table that belong to the person (personType, personId)
Of(rows, personType, personId) ==
  {x \in rows : IF personType = "Teacher"
                  THEN x.Teacher_ID = personId /\ x.Student_ID = NullId
                  ELSE x.Student_ID = personId /\ x.Teacher_ID = NullId}

\* request r arrives in this step
Arrives(r, op) == slot[r].pc = "idle" /\ slot'[r].op = op

\* request r is answered in this state
Answered(r, op) == slot[r].pc = "done" /\ slot[r].op = op

(* C1: under any interleaving of concurrently processed logRecognizedPerson
   requests, ActivePresence never holds two records for the same person in
   the same zone.  Fails: the lookup and the create are separate steps and
   the table has no unique index. *)
C1_OnePresencePerPerson ==
  \A a, b \in activePresence :
    (SamePerson(a, b) /\ a.Zone_id = b.Zone_id) => a = b

(* C2: an Entry-camera request for a person who already has an
   ActivePresence record returns that record and writes nothing, so
   sequentially processed Entry requests leave one record per person, with
   the EntryTime it was created with. *)
C2_EntryReaffirmed ==
  /\ [][\A r \in Reqs :
          (/\ Arrives(r, "logRecognizedPerson")
           /\ slot'[r].cameraType = "Entry"
           /\ slot'[r].status # 400
           /\ Of(activePresence, slot'[r].personType, slot'[r].personId) # {})
          => /\ slot'[r].pc = "done"
             /\ slot'[r].status = 200
             /\ slot'[r].data \in
                  Of(activePresence, slot'[r].personType, slot'[r].personId)
             /\ activePresence' = activePresence
             /\ timeTable' = timeTable
             /\ attendanceLog' = attendanceLog]_vars
  /\ []C1_OnePresencePerPerson

\* a second Entry sighting, later than the first, got the first one's record
C2_Witness ==
  \E r \in Reqs :
    /\ Answered(r, "logRecognizedPerson")
    /\ slot[r].cameraType = "Entry"
    /\ slot[r].message = "Person already in zone"
    /\ slot[r].data \in activePresence
    /\ slot[r].data.EntryTime < now

\* Math.round of a gap of whole seconds, in minutes (halves round up)
NearestMinute(seconds) ==
  CHOOSE m \in 0..(seconds \div 60 + 1) : 60 * m - 30 <= seconds /\ seconds < 60 * m + 30

(* C3: an Exit-camera request for a person who has an ActivePresence record
   closes the session: once it is answered the record is gone and an
   AttendanceLog record with its EntryTime exists.  Fails: the lookup's
   early return answers "Person already in zone" for every camera. *)
C3_ExitCloses ==
  \A r \in Reqs :
    (/\ Answered(r, "logRecognizedPerson")
     /\ slot[r].cameraType = "Exit"
     /\ slot[r].existingEntry # NullPresence)
    => /\ slot[r].existingEntry \notin activePresence
       /\ \E l \in attendanceLog :
            /\ l.Presence_ID = slot[r].existingEntry.Presence_ID
            /\ l.EntryTime = slot[r].existingEntry.EntryTime
            /\ l.Duration = NearestMinute(l.ExitTime - l.EntryTime)

(* C4: after sequentially processed logRecognizedPerson, markExit,
   recordEntry and recordExit requests the TimeTable has at most one open
   row (ExitTime null) per person and zone.  Fails: markExit removes the
   presence without closing the TimeTable row, and logRecognizedPerson
   never looks at the TimeTable before inserting. *)
C4_OneOpenRowPerPersonZone ==
  \A x, y \in timeTable :
    (/\ x.ExitTime = NullTime /\ y.ExitTime = NullTime
     /\ x.Student_ID = y.Student_ID /\ x.Teacher_ID = y.Teacher_ID
     /\ x.Zone_id = y.Zone_id)
    => x = y

\* an Exit-camera request for a person without an ActivePresence record
ExitWhileAbsent(r) ==
  /\ Arrives(r, "logRecognizedPerson")
  /\ slot'[r].cameraType = "Exit"
  /\ slot'[r].status # 400
  /\ Of(activePresence, slot'[r].personType, slot'[r].personId) = {}

(* C5 as claimed: an Exit-camera request for a person without an
   ActivePresence record is answered with an error or writes an anomaly
   record, and creates no ActivePresence record. *)
C5_ExitWhileAbsentNotDropped ==
  [][\A r \in Reqs :
       (ExitWhileAbsent(r) /\ slot'[r].pc = "done")
       => /\ (slot'[r].status >= 400
               \/ attendanceLog' # attendanceLog \/ timeTable' # timeTable)
          /\ activePresence' = activePresence]_vars

(* C5 as amended: such a request is acknowledged with a success response
   that carries no data, and it writes nothing: no anomaly record and no
   ActivePresence, TimeTable or AttendanceLog row. *)
C5_ExitWhileAbsentAcknowledged ==
  [][\A r \in Reqs :
       ExitWhileAbsent(r)
       => /\ slot'[r].pc = "done"
          /\ slot'[r].status = 200
          /\ slot'[r].data = NullPresence
          /\ activePresence' = activePresence
          /\ timeTable' = timeTable
          /\ attendanceLog' = attendanceLog]_vars

\* an Exit sighting of an absent person was acknowledged
C5_Witness ==
  \E r \in Reqs :
    /\ Answered(r, "logRecognizedPerson")
    /\ slot[r].cameraType = "Exit"
    /\ slot[r].status = 200
    /\ slot[r].existingEntry = NullPresence
    /\ Of(activePresence, slot[r].personType, slot[r].personId) = {}

\* the open TimeTable rows of a person in a zone (every zone when none is given)
OpenRows(personType, personId, zoneId) ==
  {x \in Of(timeTable, personType, personId) :
     x.ExitTime = NullTime /\ (zoneId = NullId \/ x.Zone_id = zoneId)}

(* C6: recordExit for an enrolled person with no open entry in the given
   zone appends exactly one TimeTable row, with EntryTime null and ExitTime
   the supplied timestamp; no existing row changes and no open row appears. *)
C6_ExitWithoutEntryRecorded ==
  [][\A r \in Reqs :
       /\ (/\ Arrives(r, "recordExit")
           /\ OpenRows(slot'[r].personType, slot'[r].personId, slot'[r].zoneId) = {})
          => slot'[r].pc = "recordExitCreate" /\ timeTable' = timeTable
       /\ (/\ slot[r].pc = "recordExitCreate"
           /\ slot'[r].pc = "done"
           /\ PersonExists(slot[r].personType, slot[r].personId)
           /\ slot[r].zoneId \in Zones \cup {NullId})
          => \E x \in timeTable' :
               /\ x \notin timeTable
               /\ timeTable' = timeTable \cup {x}
               /\ x.EntryTime = NullTime
               /\ x.ExitTime # NullTime
               /\ slot[r].timestamp # NoTimestamp => x.ExitTime = slot[r].timestamp
               /\ slot[r].timestamp = NoTimestamp => x.ExitTime \in Times
               /\ x \in Of(timeTable', slot[r].personType, slot[r].personId)
               /\ x.Zone_id = slot[r].zoneId]_vars

\* an exit-only row carrying the supplied timestamp was recorded
C6_Witness ==
  \E r \in Reqs, x \in timeTable :
    /\ Answered(r, "recordExit")
    /\ slot[r].status = 200
    /\ slot[r].timestamp # NoTimestamp
    /\ x.TimeTable_ID = slot[r].openEntry
    /\ x.EntryTime = NullTime
    /\ x.ExitTime = slot[r].timestamp

(* C7 as claimed: an open session in one zone never blocks opening a session
   in another zone: recordEntry is refused with ConflictError only when the
   person has an open entry in the requested zone. *)
C7_ZonesIndependent ==
  \A r \in Reqs :
    (/\ Answered(r, "recordEntry")
     /\ slot[r].status = 409
     /\ slot[r].zoneId # NullId)
    => OpenRows(slot[r].personType, slot[r].personId, slot[r].zoneId) # {}

(* C7 as amended: recordEntry for a person who has an open entry in any zone
   is refused with ConflictError and creates no row, so a person never has
   two open entries, whatever their zones. *)
C7_OpenEntryBlocksEveryZone ==
  /\ [][\A r \in Reqs :
          (/\ Arrives(r, "recordEntry")
           /\ OpenRows(slot'[r].personType, slot'[r].personId, NullId) # {})
          => /\ slot'[r].pc = "done"
             /\ slot'[r].status = 409
             /\ timeTable' = timeTable]_vars
  /\ [](\A x, y \in timeTable :
          (x.ExitTime = NullTime /\ y.ExitTime = NullTime /\ SamePerson(x, y))
          => x = y)

\* recordEntry for zone 2 was refused because of the open entry in zone 1
C7_Witness ==
  \E r \in Reqs :
    /\ Answered(r, "recordEntry")
    /\ slot[r].status = 409
    /\ slot[r].zoneId = 2
    /\ OpenRows(slot[r].personType, slot[r].personId, 1) # {}
    /\ OpenRows(slot[r].personType, slot[r].personId, 2) = {}

(* C8: at most one AttendanceLog record is written for a presence session,
   also when two markExit requests for the same presenceId interleave.
   Fails: both find the presence, both create a log, one delete throws. *)
C8_OneLogPerSession ==
  \A a, b \in attendanceLog : a.Presence_ID = b.Presence_ID => a = b

(* C9: closing a session in markExit is all-or-nothing: when no markExit
   for a session is under way, there is no AttendanceLog record for a
   session whose ActivePresence record still exists.  Fails: the create and
   the delete are two writes outside any transaction. *)
C9_CloseIsAtomic ==
  \A e \in activePresence, l \in attendanceLog :
    l.Presence_ID = e.Presence_ID
    => \E r \in Reqs :
         /\ slot[r].op = "markExit"
         /\ slot[r].presenceId = e.Presence_ID
         /\ slot[r].pc \notin {"idle", "done"}

(* C10: every AttendanceLog record has Duration equal to ExitTime - EntryTime
   in minutes, rounded to the nearest integer.  Fails: markExit rounds down. *)
C10_DurationRounded ==
  \A l \in attendanceLog : l.Duration = NearestMinute(l.ExitTime - l.EntryTime)

(* C11: every TimeTable session closed by recordExit has ExitTime not before
   EntryTime, whatever timestamps the callers supplied.  Fails: recordExit
   writes the supplied exit time without comparing it with the EntryTime of
   the open entry. *)
C11_ExitNotBeforeEntry ==
  \A x \in timeTable :
    (x.EntryTime # NullTime /\ x.ExitTime # NullTime) => x.ExitTime >= x.EntryTime

(* C12: recordEntry for a person who already has an open TimeTable entry
   raises ConflictError, creates no row and leaves the open entry as it is. *)
C12_OpenEntryConflict ==
  [][\A r \in Reqs :
       (/\ Arrives(r, "recordEntry")
        /\ OpenRows(slot'[r].personType, slot'[r].personId, NullId) # {})
       => /\ slot'[r].pc = "done"
          /\ slot'[r].message = "ConflictError"
          /\ slot'[r].status = 409
          /\ tables' = tables]_vars

\* a second recordEntry for the zone of the open entry was refused
C12_Witness ==
  \E r \in Reqs, x \in timeTable :
    /\ Answered(r, "recordEntry")
    /\ slot[r].message = "ConflictError"
    /\ x \in OpenRows(slot[r].personType, slot[r].personId, slot[r].zoneId)
    /\ x.Zone_id = slot[r].zoneId
    /\ slot[r].zoneId \in Zones
    /\ serial.TimeTable = 2

\* the request names a person or a zone that does not exist
MissingReference(s) ==
  \/ ~PersonExists(s.personType, s.personId)
  \/ (s.zoneId # NullId /\ ~ZoneExists(s.zoneId))

(* C13: a recordEntry or recordExit call that names a person or a zone that
   does not exist changes no TimeTable row and ends with NotFoundError.
   Fails: recordExit verifies nothing (the insert is refused by the foreign
   key, a database error), and recordEntry looks for the open entry first. *)
C13_MissingReferenceNotFound ==
  [][\A r \in Reqs :
       (/\ slot'[r].op \in {"recordEntry", "recordExit"}
        /\ slot'[r] # slot[r]
        /\ MissingReference(slot'[r]))
       => /\ timeTable' = timeTable
          /\ slot'[r].pc = "done" => slot'[r].message = "NotFoundError"]_vars

(* C20: in the getTimeTableLogs report a row with EntryTime null and
   ExitTime set is never given Status 'Inside'; 'Inside' is reported only
   for rows without ExitTime.  Fails: Status starts as 'Inside' and neither
   branch of the mapping changes it for a row without EntryTime. *)
C20_ExitOnlyNotInside ==
  \A r \in Reqs :
    Answered(r, "getTimeTableLogs")
    => \A l \in slot[r].logs : l.Status = "Inside" => l.ExitTime = NullTime

(* C14: every recognize request of the dashboard carries the type of the
   camera that made the sighting, so that an Entry camera's sighting of a
   person without ActivePresence record leaves a record once the request is
   answered with success.  Fails: zone1API.logRecognizedPerson has three
   parameters and posts no cameraType; the controller acknowledges and
   writes nothing. *)
C14_EntrySightingOpensPresence ==
  \A c \in Reqs :
    (cycle[c].pc = "handleRecognizedPerson" /\ slot[c].pc = "done")
    => /\ slot[c].cameraType = cycle[c].cameraType
       /\ (cycle[c].cameraType = "Entry" /\ slot[c].status \in {200, 201})
          => Of(activePresence, slot[c].personType, slot[c].personId) # {}

\* a logRecognizedPerson call for the key was made less than five minutes ago
RecentlyLogged(key) ==
  lastRecognized[key] # NullTime /\ clock - lastRecognized[key] < RecognizedCooldown

(* C15: a matched sighting triggers a logRecognizedPerson call if and only
   if no call was made for its key (personType, personId, cameraType) during
   the preceding 5 minutes.  Fails: the key is added after the awaited call,
   so a second cycle, started after the interval was restarted, calls again. *)
C15_OneCallPerWindow ==
  [][\A c \in Reqs, d \in Descriptors :
       (DetectFaces(c, d) /\ matchFace(d, MatchThreshold) # NoMatch)
       => (cycle'[c].pc = "handleRecognizedPerson"
            <=> ~RecentlyLogged(PersonKey(matchFace(d, MatchThreshold),
                                          cycle[c].cameraType)))]_vars

\* the two descriptors are closer than the match threshold
Close(d, e) == EuclideanDistance(d, e) < MatchThreshold

(* C16: no logUnknownPerson call is made for a descriptor within 60 minutes
   of a call for a descriptor closer than the threshold to it: two such
   sightings are logged once.  Fails: the descriptor is stored after the
   awaited call, so a second cycle, started after the interval was
   restarted, logs the same stranger again. *)
C16_UnknownLoggedOnce ==
  [][\A c \in Reqs, d \in Strangers :
       (DetectFaces(c, d) /\ cycle'[c].pc = "handleUnknownPerson")
       => \A e \in Strangers :
            Close(d, e)
            => \/ lastUnknown[e] = NullTime
               \/ clock - lastUnknown[e] >= UnknownCooldown]_vars

(* C17: an unmatched sighting is suppressed only by a stored descriptor that
   is closer than the threshold and was recorded less than 60 minutes
   earlier.  Fails: isUnknownPersonDuplicate compares with every stored
   descriptor whatever its age, and old ones are dropped only on an insert. *)
C17_OnlyFreshDescriptorsSuppress ==
  [][\A c \in Reqs, d \in Strangers :
       (DetectFaces(c, d) /\ cycle'[c].pc = "idle")
       => \E item \in unknownDescriptorsRef :
            /\ Close(d, item.descriptor)
            /\ clock - item.timestamp < UnknownCooldown]_vars

(* C18: at most one detection cycle is in progress at any time, also when
   the interval is restarted (camera added or removed) while a cycle is in
   flight.  Fails: the effect's cleanup clears processingRef, so the first
   tick of the new interval starts a cycle beside the one still running. *)
C18_OneCycleAtATime ==
  Cardinality({c \in Reqs : cycle[c].pc # "idle"}) <= 1

\* the enrolled faces closer than the threshold to the descriptor
Below(d) ==
  {i \in DOMAIN faceDescriptors :
     EuclideanDistance(d, faceDescriptors[i].descriptor) < MatchThreshold}

(* C19: a face is logged as recognized person P only if P's enrolled
   descriptor is below the threshold and no enrolled descriptor is nearer,
   and the request names P; a face with no enrolled descriptor below the
   threshold takes the unknown path and is never sent to logRecognizedPerson. *)
C19_NearestBelowThreshold ==
  \A c \in Reqs :
    LET d == cycle[c].descriptor
        match == cycle[c].match
    IN /\ cycle[c].pc = "handleRecognizedPerson"
          => /\ \E i \in Below(d) :
                  /\ faceDescriptors[i].id = match.id
                  /\ faceDescriptors[i].type = match.type
                  /\ \A j \in DOMAIN faceDescriptors :
                       EuclideanDistance(d, faceDescriptors[j].descriptor)
                         >= EuclideanDistance(d, faceDescriptors[i].descriptor)
             /\ slot[c].pc = "done"
                => /\ slot[c].op = "logRecognizedPerson"
                   /\ slot[c].personId = match.id
                   /\ slot[c].personType = normalizedType(match.type)
       /\ (cycle[c].pc # "idle" /\ d # NoDescriptor /\ Below(d) = {})
          => /\ cycle[c].pc = "handleUnknownPerson"
             /\ slot[c].pc = "idle"
       /\ cycle[c].pc = "handleUnknownPerson" => Below(d) = {}

\* the teacher was recognized although the student is below the threshold too
C19_Witness ==
  \E c \in Reqs :
    /\ cycle[c].pc = "handleRecognizedPerson"
    /\ slot[c].pc = "done"
    /\ slot[c].personType = "Teacher"
    /\ cycle[c].match.type = "TEACHER"
    /\ Cardinality(Below(cycle[c].descriptor)) = 2
    /\ cycle[c].match.distance < EuclideanDistance(cycle[c].descriptor,
                                                   faceDescriptors[1].descriptor)

(* C21: the AttendanceLog is append-only: no logRecognizedPerson, markExit,
   logUnknownPerson or unknown-face status operation modifies or removes a
   record; every record of a state is a record of the next state. *)
C21_AttendanceLogAppendOnly ==
  [][\A l \in attendanceLog : l \in attendanceLog']_vars

\* a person's second session was logged beside the first, and an unknown face
\* has had its status changed
C21_Witness ==
  /\ \E a, b \in attendanceLog :
       a # b /\ SamePerson(a, b) /\ a.Presence_ID # b.Presence_ID
  /\ \E u \in unknownFaces : u.Status = "IDENTIFIED"

\* the identity a request works for: the person its body names, or for markExit
\* the person of the presence record it found
IdentityOf(s) ==
  IF s.op = "markExit"
    THEN [PersonType |-> s.existingEntry.PersonType,
          Student_ID |-> s.existingEntry.Student_ID,
          Teacher_ID |-> s.existingEntry.Teacher_ID]
    ELSE [PersonType |-> s.personType,
          Student_ID |-> ServiceIdFields(s.personType, s.personId).Student_ID,
          Teacher_ID |-> ServiceIdFields(s.personType, s.personId).Teacher_ID]

\* the rows of a table that belong to another identity
Others(rows, identity) == {x \in rows : ~SamePerson(x, identity)}

(* C22: a step of a logRecognizedPerson, markExit, recordEntry or recordExit
   request for identity A leaves every ActivePresence, TimeTable and
   AttendanceLog record of every other identity unchanged, also for Student
   #n and Teacher #n and with the requests of both in flight together. *)
C22_OtherIdentitiesUntouched ==
  [][\A r \in Reqs :
       slot'[r] # slot[r]
       => LET A == IdentityOf(IF slot[r].pc = "idle" THEN slot'[r] ELSE slot[r])
          IN /\ Others(activePresence', A) = Others(activePresence, A)
             /\ Others(timeTable', A) = Others(timeTable, A)
             /\ Others(attendanceLog', A) = Others(attendanceLog, A)]_vars

\* Student #1's recordEntry has opened a row while the markExit of Teacher #1
\* is between its two writes and the teacher's row is open
C22_Witness ==
  \E r, q \in Reqs :
    /\ Answered(r, "recordEntry")
    /\ slot[r].status = 201
    /\ slot[r].personType = "Student"
    /\ slot[r].personId = 1
    /\ slot[q].op = "markExit"
    /\ slot[q].pc = "markExitDeletePresence"
    /\ slot[q].existingEntry.Teacher_ID = 1
    /\ \E x \in timeTable : x.Student_ID = 1 /\ x.ExitTime = NullTime
    /\ \E y \in timeTable : y.Teacher_ID = 1 /\ y.ExitTime = NullTime
    /\ \E l \in attendanceLog : l.Teacher_ID = 1

(* C23: starting from the single default camera, the camera list is never
   empty after any addCamera and removeCamera: while one camera is left no
   camera leaves the list. *)
C23_CameraListNeverEmpty ==
  /\ [](cameras # {})
  /\ [][Cardinality(cameras) = 1 => cameras \subseteq cameras']_vars

\* the default camera has been removed and an added camera is the only one
C23_Witness ==
  /\ Cardinality(cameras) = 1
  /\ 1 \notin CameraIds

(* C24: after sequentially processed logRecognizedPerson and markExit
   requests a person has an ActivePresence record in zone 1 if and only if
   the person has an open TimeTable row for zone 1.  Fails: markExit deletes
   the presence and never touches the TimeTable, so the row stays open. *)
C24_PresenceIffOpenRow ==
  Quiet =>
    \A personType \in PersonTypes, personId \in PersonIdInputs :
      ({e \in Of(activePresence, personType, personId) : e.Zone_id = ZONE1} # {})
        <=> (OpenRows(personType, personId, ZONE1) # {})

\* the open rows a recordExit request matches, and the latest of them
Matching(s) == OpenRows(s.personType, s.personId, s.zoneId)

LatestOf(rows) == {x \in rows : \A y \in rows : y.EntryTime <= x.EntryTime}

(* C25: recordExit for a person with one or more open entries matching the
   request sets ExitTime on exactly one row, the open row with the latest
   EntryTime, creates no row and leaves every other row unchanged. *)
C25_LatestOpenEntryClosed ==
  [][\A r \in Reqs :
       /\ (Arrives(r, "recordExit") /\ Matching(slot'[r]) # {})
          => /\ slot'[r].pc = "recordExitUpdate"
             /\ tables' = tables
       /\ (slot[r].pc = "recordExitUpdate" /\ slot'[r].pc = "done")
          => \E x \in LatestOf(Matching(slot[r])) :
               /\ timeTable' = (timeTable \ {x}) \cup
                                  {[x EXCEPT !.ExitTime = slot[r].time]}
               /\ slot[r].time # NullTime
               /\ serial' = serial
               /\ activePresence' = activePresence
               /\ attendanceLog' = attendanceLog]_vars

\* recordExit closed the later of a student's two open rows
C25_Witness ==
  \E r \in Reqs, x, y \in timeTable :
    /\ Answered(r, "recordExit")
    /\ slot[r].status = 200
    /\ x.TimeTable_ID = slot[r].openEntry
    /\ x.ExitTime = slot[r].time
    /\ SamePerson(x, y)
    /\ y.ExitTime = NullTime
    /\ y.EntryTime # NullTime
    /\ y.EntryTime < x.EntryTime

\* the recognition processes of a zone that are running and were not stopped
Running(z) == {ch \in children : ch.zoneId = z /\ ch.state = "alive"}

(* C26: for every zone at most one recognition process started by
   startLiveRecognition is alive at any time, also when two start requests
   for the zone are processed concurrently.  Fails: the already-running check
   and the registration are separated by the awaited zone lookup, so both
   requests pass the check and both spawn. *)
C26_OneProcessPerZone ==
  \A z \in Zones : Cardinality(Running(z)) <= 1

(* C27: whenever a recognition process of a zone is alive and has not been
   stopped, the registry holds an entry for the zone that refers to it, and
   getRecognitionStatus reports it.  Fails: the close handler of a stopped
   process deletes the entry of the zone, which by then belongs to the
   process started after the stop. *)
C27_RunningIsRegistered ==
  \A ch \in children :
    ch.state = "alive"
    => /\ activeProcesses[ch.zoneId] = ch.pid
       /\ [zoneId |-> ch.zoneId, pid |-> ch.pid] \in getRecognitionStatus

(* C28: a sighting enters a dedup filter only when it was handed to the
   backend with success: the key is added to the recency set only after
   logRecognizedPerson succeeded and an unknown descriptor is stored only
   after logUnknownPerson succeeded.  Fails: both handlers catch the error
   of a failed call and return normally, and processDetections updates the
   filter whatever happened. *)
C28_FilterOnlyAfterSuccess ==
  [][\A c \in Reqs :
       /\ HandleRecognizedPersonReturns(c) => slot[c].status \in {200, 201}
       /\ HandleUnknownPersonReturns(c)
          => (slot[c].pc = "done" /\ slot[c].status = 201)]_vars

(* C29: every detection cycle that starts eventually ends with the
   processing flag cleared, whether it completes normally or its detection
   or logging step throws, so that a later tick starts a new cycle. *)
C29_CycleClearsFlag == processingRef ~> ~processingRef

\* a tick has started a new cycle after cycles that went through both handlers
C29_Witness ==
  \E c \in Reqs :
    /\ cycle[c].pc = "detectFaces"
    /\ processingRef
    /\ slot[c].pc = "idle"
    /\ recognizedPersonsRef # {}
    /\ unknownDescriptorsRef # {}

(* C30: every ActivePresence and AttendanceLog row has PersonType Student or
   Teacher and exactly the id column of that type set; the logs of a session
   name the person of its ActivePresence row, and a step that removes an
   ActivePresence row leaves such a log behind *)
TypedIdentity(x) ==
  \/ x.PersonType = "Student" /\ x.Student_ID # NullId /\ x.Teacher_ID = NullId
  \/ x.PersonType = "Teacher" /\ x.Teacher_ID # NullId /\ x.Student_ID = NullId

C30_TypedIdentity ==
  /\ [](/\ \A e \in activePresence : TypedIdentity(e)
        /\ \A l \in attendanceLog : TypedIdentity(l)
        /\ \A l \in attendanceLog : \A x \in activePresence \cup attendanceLog :
             l.Presence_ID = x.Presence_ID => SamePerson(l, x))
  /\ [][\A e \in activePresence \ activePresence' :
          \E l \in attendanceLog' :
            l.Presence_ID = e.Presence_ID /\ SamePerson(l, e)]_vars

\* a teacher's and a student's sessions have both been closed by markExit
\* while a further session is open
C30_Witness ==
  /\ \E l \in attendanceLog : l.PersonType = "Teacher" /\ l.Presence_ID # NullId
  /\ \E l \in attendanceLog : l.PersonType = "Student" /\ l.Presence_ID # NullId
  /\ activePresence # {}
  /\ \E r \in Reqs : slot[r].op = "markExit" /\ slot[r].status = 200

====
